---- MODULE Spec2Model ----
(***************************************************************************)
(* A model of the cache engine of internal/cache/cache.go: the entry      *)
(* table, the LRU eviction of Set, lazy expiration in Get, the background  *)
(* sweep goroutine (periodicCleanup / cleanExpired), Close, and the        *)
(* RWMutex discipline of the public operations.                            *)
(*                                                                         *)
(* Time is one wall clock counted in nanoseconds.  time.Now().UnixNano()   *)
(* is the clock itself, time.Now().Unix() is the clock divided by the      *)
(* number of nanoseconds in a second.  The clock never goes back, and two  *)
(* readings may be equal.                                                  *)
(***************************************************************************)
EXTENDS Integers, FiniteSets, Sequences, TLC

VARIABLES
    data,        \* c.data: the table, a function from the stored keys to entries
    maxEntries,  \* c.maxEntries
    clock,       \* the wall clock, in nanoseconds
    tickerNext,  \* the clock value at which the ticker of periodicCleanup fires next
    tickPending, \* ticker.C holds an undelivered tick (a channel of capacity 1)
    closed,      \* c.stopClean has been closed
    sweeper,     \* where the periodicCleanup goroutine is
    panicked,    \* the process has panicked
    mu,          \* c.mu: [w |-> the exclusive holder or NoOne, r |-> the shared holders]
    thr,         \* the foreground callers: what each is doing
    last,        \* the foreground operation that completed last: what it returned, and when
    held,        \* the map a caller holds: the one ExportData returned or ImportData was given
    shared,      \* held is the very map (and entries) c.data points to
    nilData,     \* c.data is a nil map: it reads as an empty map and cannot be written
    cli,         \* the command loop: where it is, the input left, the line read, the last output
    file,        \* the log file: whether it exists, its records, and whether it ends torn
    snap,        \* the snapshot file: missing, undecodable, or the table it holds
    loader       \* where LoadFromLog or LoadSnapshot is, and how it ended

vars == <<data, maxEntries, clock, tickerNext, tickPending, closed, sweeper,
          panicked, mu, thr, last, held, shared, nilData, cli, file, snap, loader>>

----------------------------------------------------------------------------
(* Bounds of the model *)

\* capacities 1..MaxCap are tried
MaxCap == 2
\* the clock advances at most this many nanoseconds
MaxTicks == 2
\* the model's second has this many nanoseconds
NanosPerSec == 2
\* the largest time-to-live passed to Expire
MaxTTL == 1
\* the number of foreground callers of the lock-level specifications
NThreads == 2
\* the largest number of records of a log file that is given to a load
MaxLog == 2
\* LoadFromLog is called at most this many times on one file
MaxLoads == 2
\* the largest number of records of a log that is replayed twice
MaxReplayed == 3
\* the largest number of lines on the standard input of the command loop
MaxInput == 2

\* the value NewCacheEngine substitutes for a non-positive capacity
DefaultMaxEntries == 1000

\* The engine is created at second StartSec.  It is late enough that, as on a
\* real clock, a nanosecond reading is never smaller than a reachable
\* expiration time in seconds.
StartSec == MaxTicks + MaxTTL + 1
StartNanos == StartSec * NanosPerSec
EndNanos == StartNanos + MaxTicks

Keys == {"", "a", "b"}
Values == {"v1", "v2"}
NilValue == "nil"

\* Smaller sets of arguments, for the specifications that need fewer
TwoKeys == {"", "a"}
OneKey == {"a"}
OneValue == {"v1"}

\* Times-to-live given to Expire: positive ones, zero, and negative ones that
\* reach back to the epoch and before it.
TTLs == (1..MaxTTL) \cup {0, 0 - (StartSec + 1)}

Threads == 1..NThreads
NoOne == 0
Sweeper == NThreads + 1

----------------------------------------------------------------------------
(* Clock readings *)

\* time.Now().UnixNano()
UnixNano == clock

\* time.Now().Unix()
Unix == clock \div NanosPerSec

----------------------------------------------------------------------------
(* The table *)

\* CacheEntry
Entry(value, expiresAt, lastAccess) ==
    [Value |-> value, ExpiresAt |-> expiresAt, LastAccess |-> lastAccess]

\* delete(c.data, key)
MapDelete(d, key) == [x \in (DOMAIN d) \ {key} |-> d[x]]

\* c.data[key] = entry
MapPut(d, key, entry) ==
    [x \in (DOMAIN d) \cup {key} |-> IF x = key THEN entry ELSE d[x]]

EmptyMap == [x \in {} |-> Entry(NilValue, 0, 0)]

\* len(c.data), what Size returns
Size(d) == Cardinality(DOMAIN d)

\* NewCacheEngine: the capacity the engine gets
NewCacheEngine(m) == IF m <= 0 THEN DefaultMaxEntries ELSE m

\* The test of Get and of cleanExpired: the entry has expired
IsExpired(e, nowSec) == e.ExpiresAt > 0 /\ e.ExpiresAt <= nowSec

\* evictLRU: the keys the scan can end on.  The scan starts from the clock
\* reading and keeps a key only when its LastAccess is strictly smaller than
\* what it holds, so it ends on a key of minimal LastAccess among those older
\* than the reading; which one, among equals, depends on the map's iteration
\* order.  With no such key oldestKey stays "".
OldestKeys(d, now) ==
    LET older == {k \in DOMAIN d : d[k].LastAccess < now}
        least == {k \in older : \A j \in older : d[k].LastAccess <= d[j].LastAccess}
    IN  IF least = {} THEN {""} ELSE least

\* evictLRU: the table it can leave
EvictLRU(d, now) ==
    {IF oldestKey # "" THEN MapDelete(d, oldestKey) ELSE d : oldestKey \in OldestKeys(d, now)}

\* Set: the capacity test that runs evictLRU
SetEvicts(d, key, cap) == Size(d) >= cap

\* Set: the ExpiresAt of the entry it writes over, 0 when there is none
SetCleared(d, key) == IF key \in DOMAIN d THEN d[key].ExpiresAt ELSE 0

\* A Set that keeps the expiration of the entry it writes over
SetResultKeepsExpiry(d, key, value, cap, now) ==
    LET after == IF SetEvicts(d, key, cap) THEN EvictLRU(d, now) ELSE {d}
    IN  {MapPut(e, key, Entry(value, SetCleared(d, key), now)) : e \in after}

\* Set: the tables it can leave
SetResult(d, key, value, cap, now) ==
    LET after == IF SetEvicts(d, key, cap) THEN EvictLRU(d, now) ELSE {d}
    IN  {MapPut(e, key, Entry(value, 0, now)) : e \in after}

\* Get: found
GetFound(d, key, nowSec) == key \in DOMAIN d /\ ~IsExpired(d[key], nowSec)

\* A Get that returns no value
GetValueNil(d, key, nowSec) == NilValue

\* Get: the value returned
GetValue(d, key, nowSec) == IF GetFound(d, key, nowSec) THEN d[key].Value ELSE NilValue

\* A Get that leaves LastAccess as it was
GetResultNoTouch(d, key, nowSec, now) ==
    IF key \notin DOMAIN d THEN d
    ELSE IF IsExpired(d[key], nowSec) THEN MapDelete(d, key)
    ELSE d

\* Get: the table it leaves
GetResult(d, key, nowSec, now) ==
    IF key \notin DOMAIN d THEN d
    ELSE IF IsExpired(d[key], nowSec) THEN MapDelete(d, key)
    ELSE [d EXCEPT ![key].LastAccess = now]

\* A Delete that removes nothing
DeleteResultKeeps(d, key) == d

\* Delete: the table it leaves
DeleteResult(d, key) == IF key \in DOMAIN d THEN MapDelete(d, key) ELSE d

\* An Expire that also refreshes LastAccess
ExpireResultTouches(d, key, seconds, nowSec) ==
    IF key \notin DOMAIN d THEN d
    ELSE [d EXCEPT ![key].ExpiresAt = nowSec + seconds,
                   ![key].LastAccess = nowSec * NanosPerSec]

\* Expire: the table it leaves
ExpireResult(d, key, seconds, nowSec) ==
    IF key \notin DOMAIN d THEN d
    ELSE [d EXCEPT ![key].ExpiresAt = nowSec + seconds]

\* cleanExpired: the table it leaves
CleanExpired(d, nowSec) ==
    [x \in {k \in DOMAIN d : ~IsExpired(d[k], nowSec)} |-> d[x]]

\* An ImportData that keeps the keys of the old table the new one lacks
ImportResultMerges(d, m) ==
    [x \in (DOMAIN d) \cup (DOMAIN m) |-> IF x \in DOMAIN m THEN m[x] ELSE d[x]]

\* ImportData: the table it leaves, c.data = data
ImportResult(d, m) == m

----------------------------------------------------------------------------
(* What an operation leaves in last.  num is the seconds given to Expire,    *)
(* the count Size or MaxEntries returned and the expiration a Set found      *)
(* under its key (0 for none) and the size of the table ImportData          *)
(* replaced; map is the copy ExportData returned and the map ImportData was  *)
(* given.                                                                    *)

Result(op, key, ok, val, num, map) ==
    [op |-> op, key |-> key, ok |-> ok, val |-> val, num |-> num, map |-> map,
     at |-> clock]

Done(op, key, ok, val, num) == Result(op, key, ok, val, num, EmptyMap)

\* A caller that is in no operation.  Of a caller inside ExportData, map is
\* the copy made so far and seen the tables c.data has been since the caller
\* took c.mu; of a caller inside ImportData, map is the argument and isnil
\* says that it is a nil map.
Idle ==
    [pc |-> "idle", op |-> "none", key |-> "", val |-> NilValue, num |-> 0,
     map |-> EmptyMap, seen |-> {}, isnil |-> FALSE]

----------------------------------------------------------------------------
(* The state after NewCacheEngine *)

InitEngine ==
    /\ data = EmptyMap
    /\ maxEntries \in {NewCacheEngine(m) : m \in 1..MaxCap}
    /\ clock = StartNanos
    /\ tickerNext = StartNanos + 1 * NanosPerSec
    /\ tickPending = FALSE
    /\ closed = FALSE
    /\ sweeper = "select"
    /\ panicked = FALSE
    /\ mu = [w |-> NoOne, r |-> {}]
    /\ thr = [t \in Threads |-> Idle]
    /\ last = Done("New", "", TRUE, NilValue, 0)
    /\ held = EmptyMap
    /\ shared = FALSE
    /\ nilData = FALSE

\* The log file: no file
NoLog == [exists |-> FALSE, recs |-> <<>>, torn |-> FALSE, mtime |-> 0]

\* The snapshot file: no file
NoSnapshot == [state |-> "missing", map |-> EmptyMap, mtime |-> 0]

\* No load has been called.  fn is the function, pos the number of records
\* decoded, todo the keys of the snapshot not yet applied, result how the call
\* went ("none", "running", "ok", "error"), runs the calls of LoadFromLog that
\* returned nil and first the table the first of them left.
NotLoading ==
    [fn |-> "none", pos |-> 0, todo |-> {}, result |-> "none", runs |-> 0,
     first |-> EmptyMap]

\* No command loop runs: the engine is used as a library
NoCli == [pc |-> "none", stdin |-> <<>>, line |-> <<>>, out |-> ""]

\* An engine with no file on disk
Init ==
    /\ InitEngine
    /\ cli = NoCli
    /\ file = NoLog
    /\ snap = NoSnapshot
    /\ loader = NotLoading

----------------------------------------------------------------------------
(* The public operations, each one whole: it takes c.mu, runs and releases it *)

Running == ~panicked

\* A write to c.data is a write to the caller's map when the two are one map
Follows == shared' = shared /\ held' = IF shared THEN data' ELSE held

\* What an operation of the table leaves alone, a panic apart
OpFrame ==
    /\ UNCHANGED <<nilData, cli, file, snap, loader, maxEntries, clock, tickerNext, tickPending, closed, sweeper,
                   mu, thr>>
    /\ Follows

\* What an operation of the table that cannot panic leaves alone
Frame ==
    /\ UNCHANGED panicked
    /\ OpFrame

\* c.Set(key, value).  The assignment c.data[key] = ... panics when c.data is
\* a nil map ("assignment to entry in nil map").
Set(key, value) ==
    /\ Running
    /\ IF nilData
       THEN /\ panicked' = TRUE
            /\ UNCHANGED <<data, last>>
       ELSE /\ data' \in SetResult(data, key, value, maxEntries, UnixNano)
            /\ last' = Done("Set", key, TRUE, value, SetCleared(data, key))
            /\ UNCHANGED panicked
    /\ OpFrame

\* c.Get(key)
Get(key) ==
    /\ Running
    /\ data' = GetResult(data, key, Unix, UnixNano)
    /\ last' = Done("Get", key, GetFound(data, key, Unix), GetValue(data, key, Unix), 0)
    /\ Frame

\* c.Delete(key)
Delete(key) ==
    /\ Running
    /\ data' = DeleteResult(data, key)
    /\ last' = Done("Delete", key, key \in DOMAIN data, NilValue, 0)
    /\ Frame

\* c.Expire(key, seconds)
Expire(key, seconds) ==
    /\ Running
    /\ data' = ExpireResult(data, key, seconds, Unix)
    /\ last' = Done("Expire", key, key \in DOMAIN data, NilValue, seconds)
    /\ Frame

\* A Size that removes the expired entries it meets
SizeCallSweeps ==
    /\ Running
    /\ last' = Done("Size", "", TRUE, NilValue, Size(data))
    /\ data' = CleanExpired(data, Unix)
    /\ Frame

\* c.Size()
SizeCall ==
    /\ Running
    /\ last' = Done("Size", "", TRUE, NilValue, Size(data))
    /\ UNCHANGED data
    /\ Frame

\* c.MaxEntries()
MaxEntriesCall ==
    /\ Running
    /\ last' = Done("MaxEntries", "", TRUE, NilValue, maxEntries)
    /\ UNCHANGED data
    /\ Frame

\* c.ExportData(): the copy is a map of its own, which the caller reads
ExportData ==
    /\ Running
    /\ last' = Result("ExportData", "", TRUE, NilValue, 0, data)
    /\ UNCHANGED data
    /\ Frame

\* c.ImportData(m): c.data = m.  isnil says that m is a nil map, which has
\* no entries; the caller keeps m, and a map that is not nil is shared from
\* then on.
ImportData(m, isnil) ==
    /\ Running
    /\ data' = ImportResult(data, m)
    /\ nilData' = isnil
    /\ last' = Result("ImportData", "", TRUE, NilValue, Size(data), m)
    /\ held' = m
    /\ shared' = ~isnil
    /\ UNCHANGED <<cli, file, snap, loader, maxEntries, clock, tickerNext, tickPending, closed, sweeper,
                   panicked, mu, thr>>

\* c.Close(): close(c.stopClean); closing a closed channel panics
Close ==
    /\ Running
    /\ panicked' = closed
    /\ closed' = TRUE
    /\ UNCHANGED <<nilData, cli, file, snap, loader, data, maxEntries, clock, tickerNext, tickPending, sweeper, mu, thr, last,
                   held, shared>>

----------------------------------------------------------------------------
(* Time, the ticker and the periodicCleanup goroutine *)

\* time.NewTicker(1 * time.Second): the interval of the sweep
SweepInterval == 1 * NanosPerSec

\* The ticker of periodicCleanup runs until the goroutine returns
\* (defer ticker.Stop()).
TickerRuns == sweeper # "exit"

\* A nanosecond passes.  When the ticker's time has come it puts a tick in
\* ticker.C, or drops it if the last one has not been taken.
Tick ==
    /\ Running
    /\ clock < EndNanos
    /\ clock' = clock + 1
    /\ IF TickerRuns /\ clock + 1 >= tickerNext
       THEN tickPending' = TRUE /\ tickerNext' = tickerNext + SweepInterval
       ELSE UNCHANGED <<tickPending, tickerNext>>
    /\ UNCHANGED <<nilData, cli, file, snap, loader, data, maxEntries, closed, sweeper, panicked, mu, thr, last, held, shared>>

\* periodicCleanup: the select can take case <-ticker.C
SelectTick == tickPending

\* A select with no case for c.stopClean
SelectStopMissing == FALSE

\* periodicCleanup: the select can take case <-c.stopClean
SelectStop == closed

\* periodicCleanup: select takes case <-ticker.C and calls cleanExpired
SweeperTick ==
    /\ Running
    /\ sweeper = "select"
    /\ SelectTick
    /\ tickPending' = FALSE
    /\ sweeper' = "clean"
    /\ UNCHANGED <<nilData, cli, file, snap, loader, data, maxEntries, clock, tickerNext, closed, panicked, mu, thr, last,
                   held, shared>>

\* periodicCleanup: select takes case <-c.stopClean and returns
SweeperStop ==
    /\ Running
    /\ sweeper = "select"
    /\ SelectStop
    /\ sweeper' = "exit"
    /\ UNCHANGED <<nilData, cli, file, snap, loader, data, maxEntries, clock, tickerNext, tickPending, closed, panicked,
                   mu, thr, last, held, shared>>

\* c.cleanExpired(), whole
SweeperClean ==
    /\ Running
    /\ sweeper = "clean"
    /\ data' = CleanExpired(data, Unix)
    /\ sweeper' = "select"
    /\ UNCHANGED <<nilData, cli, file, snap, loader, maxEntries, clock, tickerNext, tickPending, closed, panicked, mu,
                   thr, last>>
    /\ Follows

----------------------------------------------------------------------------
(* The engine with each operation taken whole *)

\* The operations of the table with their arguments drawn from KS, VS and TS
Operations(KS, VS, TS) ==
    \/ \E k \in KS, v \in VS : Set(k, v)
    \/ \E k \in KS : Get(k)
    \/ \E k \in KS : Delete(k)
    \/ \E k \in KS, s \in TS : Expire(k, s)
    \/ SizeCall
    \/ MaxEntriesCall

\* The clock, the sweep goroutine and the shutdown
Background ==
    \/ Close
    \/ Tick
    \/ SweeperTick
    \/ SweeperStop
    \/ SweeperClean

Next == Operations(TwoKeys, Values, TTLs) \/ Background

Spec == Init /\ [][Next]_vars

\* The same engine with three keys and one value: enough keys for an eviction
\* to have a choice
LruNext == Operations(Keys, OneValue, TTLs) \/ Background

LruSpec == Init /\ [][LruNext]_vars

\* The sweep goroutine has nothing to do: it waits in its select with no tick
\* to take, or it has returned
SweeperIdle == sweeper = "exit" \/ (sweeper = "select" /\ ~tickPending)

\* A nanosecond passes, and the sweep goroutine is scheduled in time: it has
\* taken the tick before and finished its pass
TimelyTick == SweeperIdle /\ Tick

\* The engine with a sweep goroutine that is scheduled in time, and nobody
\* reading
TimelyNext ==
    \/ \E k \in TwoKeys, v \in OneValue : Set(k, v)
    \/ \E k \in TwoKeys : Delete(k)
    \/ \E k \in TwoKeys, s \in TTLs : Expire(k, s)
    \/ Close
    \/ TimelyTick
    \/ SweeperTick
    \/ SweeperStop
    \/ SweeperClean

TimelySpec == Init /\ [][TimelyNext]_vars

\* The maps given to ImportData in one call: an empty map, maps of one and of
\* two entries, and (isnil) a nil map
BulkMaps ==
    {[m |-> EmptyMap, isnil |-> b] : b \in BOOLEAN}
    \cup {[m |-> [k \in KS |-> Entry("v2", 0, StartNanos)], isnil |-> FALSE] :
            KS \in {OneKey, TwoKeys}}

\* An engine that is given whole tables, and then the operations of the table
ImportNext ==
    \/ Operations(TwoKeys, OneValue, 0..MaxTTL)
    \/ ExportData
    \/ \E b \in BulkMaps : ImportData(b.m, b.isnil)
    \/ Tick

ImportSpec == Init /\ [][ImportNext]_vars

----------------------------------------------------------------------------
(* The lock c.mu, and the operations as their callers run them: the call,    *)
(* the acquisition of c.mu, and the critical section with the release.       *)

\* The operations that write the table; Size and ExportData only read it
Mutating == {"Set", "Get", "Delete", "Expire", "ImportData"}

Reading == {"Size", "ExportData"}

\* Get taking c.mu.RLock() as if it only read the table
LockModeGetShared(op) == IF op \in {"Size", "ExportData", "Get"} THEN "r" ELSE "w"

\* How each operation takes c.mu: "w" for Lock, "r" for RLock
LockMode(op) == IF op \in {"Size", "ExportData"} THEN "r" ELSE "w"

\* The maps given to ImportData
ImportMaps == {EmptyMap, [k \in OneKey |-> Entry("v2", 0, StartNanos)]}

\* sync.RWMutex: Lock succeeds when nobody holds the mutex
CanLock == mu.w = NoOne /\ mu.r = {}

\* sync.RWMutex: a goroutine is blocked in Lock, the sweep goroutine in
\* cleanExpired included
WriterWaiting ==
    \/ sweeper = "clean"
    \/ \E t \in Threads : thr[t].pc = "lock" /\ LockMode(thr[t].op) = "w"

\* sync.RWMutex: RLock succeeds when no writer holds the mutex and none is
\* blocked in Lock (a blocked Lock keeps new readers out)
CanRLock == mu.w = NoOne /\ ~WriterWaiting

\* The calls of the operations OPS with arguments from KS, VS and TS
Calls(OPS, KS, VS, TS) ==
    {[Idle EXCEPT !.pc = "lock", !.op = op, !.key = k, !.val = v] :
        op \in OPS \cap {"Set"}, k \in KS, v \in VS}
    \cup {[Idle EXCEPT !.pc = "lock", !.op = op, !.key = k] :
        op \in OPS \cap {"Get", "Delete"}, k \in KS}
    \cup {[Idle EXCEPT !.pc = "lock", !.op = op, !.key = k, !.num = s] :
        op \in OPS \cap {"Expire"}, k \in KS, s \in TS}
    \cup {[Idle EXCEPT !.pc = "lock", !.op = op] :
        op \in OPS \cap {"Size", "ExportData"}}
    \cup {[Idle EXCEPT !.pc = "lock", !.op = op, !.map = m] :
        op \in OPS \cap {"ImportData"}, m \in ImportMaps}

\* The call ImportData(nil)
NilImport == [Idle EXCEPT !.pc = "lock", !.op = "ImportData", !.isnil = TRUE]

\* A caller enters an operation and reaches its c.mu.Lock() or c.mu.RLock()
Call(t, c) ==
    /\ Running
    /\ thr[t].pc = "idle"
    /\ thr' = [thr EXCEPT ![t] = c]
    /\ UNCHANGED <<nilData, cli, file, snap, loader, data, maxEntries, clock, tickerNext, tickPending, closed, sweeper,
                   panicked, mu, last, held, shared>>

\* c.mu.Lock() or c.mu.RLock() returns
Acquire(t) ==
    /\ Running
    /\ thr[t].pc = "lock"
    /\ IF LockMode(thr[t].op) = "w"
       THEN CanLock /\ mu' = [mu EXCEPT !.w = t]
       ELSE CanRLock /\ mu' = [mu EXCEPT !.r = @ \cup {t}]
    /\ thr' = [thr EXCEPT ![t].pc = "cs",
                          ![t].seen = IF thr[t].op = "ExportData" THEN {data} ELSE {}]
    /\ UNCHANGED <<nilData, cli, file, snap, loader, data, maxEntries, clock, tickerNext, tickPending, closed, sweeper,
                   panicked, last, held, shared>>

\* c.mu.Unlock() or c.mu.RUnlock()
Release(t) == [w |-> IF mu.w = t THEN NoOne ELSE mu.w, r |-> mu.r \ {t}]

\* The tables the operation of caller t can leave
Effect(t) ==
    LET c == thr[t]
    IN  CASE c.op = "Set"    -> SetResult(data, c.key, c.val, maxEntries, UnixNano)
          [] c.op = "Get"    -> {GetResult(data, c.key, Unix, UnixNano)}
          [] c.op = "Delete" -> {DeleteResult(data, c.key)}
          [] c.op = "Expire" -> {ExpireResult(data, c.key, c.num, Unix)}
          [] c.op = "Size"   -> {data}
          [] c.op = "ExportData" -> {data}
          [] c.op = "ImportData" -> {ImportResult(data, c.map)}

\* What the operation of caller t returns
Returned(t) ==
    LET c == thr[t]
    IN  CASE c.op = "Set"    -> Done("Set", c.key, TRUE, c.val, SetCleared(data, c.key))
          [] c.op = "Get"    -> Done("Get", c.key, GetFound(data, c.key, Unix),
                                     GetValue(data, c.key, Unix), 0)
          [] c.op = "Delete" -> Done("Delete", c.key, c.key \in DOMAIN data, NilValue, 0)
          [] c.op = "Expire" -> Done("Expire", c.key, c.key \in DOMAIN data, NilValue, c.num)
          [] c.op = "Size"   -> Done("Size", "", TRUE, NilValue, Size(data))
          [] c.op = "ExportData" -> Result("ExportData", "", TRUE, NilValue, 0, c.map)
          [] c.op = "ImportData" -> Result("ImportData", "", TRUE, NilValue, Size(data), c.map)

\* ExportData: the range loop copies the entry of one more key of c.data
ExportCopy(t) ==
    /\ Running
    /\ thr[t].pc = "cs"
    /\ thr[t].op = "ExportData"
    /\ \E k \in (DOMAIN data) \ (DOMAIN thr[t].map) :
          thr' = [thr EXCEPT ![t].map = MapPut(@, k, data[k])]
    /\ UNCHANGED <<nilData, cli, file, snap, loader, data, maxEntries, clock, tickerNext, tickPending, closed, sweeper,
                   panicked, mu, last, held, shared>>

\* ExportData: the range loop has been over every key of c.data
ExportDone(t) == thr[t].op = "ExportData" => (DOMAIN data) \subseteq (DOMAIN thr[t].map)

\* The map the caller holds after the operation: the copy ExportData made, the
\* map ImportData was given, which is c.data from then on
Handed(t) ==
    CASE thr[t].op = "ExportData" -> held' = thr[t].map /\ shared' = FALSE
      [] thr[t].op = "ImportData" -> held' = data' /\ shared' = ~thr[t].isnil
      [] OTHER -> Follows

\* Set in its critical section with c.data a nil map: the assignment to
\* c.data[key] panics
SetPanics(t) == thr[t].op = "Set" /\ nilData

\* The critical section of the operation, its unlock and its return.  Set
\* calls c.mu.Unlock() without defer: when it panics c.mu stays locked and
\* the call does not return.
Return(t) ==
    /\ Running
    /\ thr[t].pc = "cs"
    /\ ExportDone(t)
    /\ IF SetPanics(t)
       THEN /\ panicked' = TRUE
            /\ UNCHANGED <<data, last, mu, thr, held, shared, nilData, cli>>
       ELSE /\ data' \in Effect(t)
            /\ last' = Returned(t)
            /\ mu' = Release(t)
            /\ thr' = [thr EXCEPT ![t] = Idle]
            /\ Handed(t)
            /\ nilData' = IF thr[t].op = "ImportData" THEN thr[t].isnil ELSE nilData
            /\ UNCHANGED panicked
    /\ UNCHANGED <<cli, file, snap, loader, maxEntries, clock, tickerNext, tickPending, closed, sweeper>>

\* The caller has a map of the engine's in hand
Holding == shared \/ held # EmptyMap

\* The caller writes to the map it holds, outside every operation of the
\* engine: it deletes a key or stores an entry.  When the map is c.data itself
\* the table changes with it, and a write that meets a critical section is a
\* data race, which the runtime may end with a fatal error.
CallerWrites ==
    /\ Running
    /\ Holding
    /\ \E k \in TwoKeys :
          held' \in {MapDelete(held, k), MapPut(held, k, Entry("v2", 0, UnixNano))}
    /\ held' # held
    /\ data' = IF shared THEN held' ELSE data
    /\ panicked' \in IF shared /\ (mu.w # NoOne \/ mu.r # {}) THEN {FALSE, TRUE} ELSE {FALSE}
    /\ thr' = [t \in Threads |->
                 IF thr[t].pc = "cs" /\ thr[t].op = "ExportData"
                 THEN [thr[t] EXCEPT !.seen = @ \cup {data'}]
                 ELSE thr[t]]
    /\ UNCHANGED <<nilData, cli, file, snap, loader, maxEntries, clock, tickerNext, tickPending, closed, sweeper, mu, last,
                   shared>>

\* cleanExpired: c.mu.Lock() returns
SweeperLock ==
    /\ Running
    /\ sweeper = "clean"
    /\ CanLock
    /\ mu' = [mu EXCEPT !.w = Sweeper]
    /\ sweeper' = "cs"
    /\ UNCHANGED <<nilData, cli, file, snap, loader, data, maxEntries, clock, tickerNext, tickPending, closed, panicked,
                   thr, last, held, shared>>

\* cleanExpired: the scan, and the deferred c.mu.Unlock()
SweeperUnlock ==
    /\ Running
    /\ sweeper = "cs"
    /\ data' = CleanExpired(data, Unix)
    /\ mu' = Release(Sweeper)
    /\ sweeper' = "select"
    /\ UNCHANGED <<nilData, cli, file, snap, loader, maxEntries, clock, tickerNext, tickPending, closed, panicked, thr, last>>
    /\ Follows

\* A step of the engine under its callers, whose operations are drawn from OPS
\* and their arguments from KS, VS and TS
Callers(OPS, KS, VS, TS) ==
    \/ \E t \in Threads, c \in Calls(OPS, KS, VS, TS) : Call(t, c)
    \/ \E t \in Threads : Acquire(t)
    \/ \E t \in Threads : Return(t)
    \/ Tick
    \/ SweeperTick
    \/ SweeperLock
    \/ SweeperUnlock

\* The shutdown, and the sweep goroutine seeing it
Shutdown ==
    \/ Close
    \/ SweeperStop

\* Writers and readers issuing Set, Get and Delete beside the sweep
RaceNext == Callers({"Set", "Get", "Delete"}, TwoKeys, OneValue, {})

RaceSpec == Init /\ [][RaceNext]_vars

\* Callers of every operation of the table, beside the sweep and the shutdown
LockNext ==
    \/ Callers(Mutating \cup Reading, OneKey, OneValue, 1..MaxTTL)
    \/ \E t \in Threads : ExportCopy(t)
    \/ Shutdown

LockSpec == Init /\ [][LockNext]_vars

\* Callers that export and import the table while others set, and that write
\* to the maps they hold
CopyNext ==
    \/ \E t \in Threads :
          \E c \in Calls({"Set", "ExportData", "ImportData"}, TwoKeys, OneValue, {}) :
              Call(t, c)
    \/ \E t \in Threads : Acquire(t)
    \/ \E t \in Threads : ExportCopy(t)
    \/ \E t \in Threads : Return(t)
    \/ CallerWrites

CopySpec == Init /\ [][CopyNext]_vars

\* The scheduling of Go: a goroutine that can run does run (WF); a select
\* chooses among its ready cases at random, so a case that is ready again and
\* again is taken (SF); a goroutine blocked in Lock gets the mutex when it is
\* free again and again (SF: sync.Mutex hands over to a starving waiter).
Fairness ==
    /\ SF_vars(SweeperStop)
    /\ SF_vars(SweeperLock)
    /\ WF_vars(SweeperUnlock)
    /\ \A t \in Threads : WF_vars(Return(t))

FairNext == Callers({"Set", "Get", "Size"}, OneKey, OneValue, {}) \/ Shutdown

FairSpec == Init /\ [][FairNext]_vars /\ Fairness

\* The scheduling of the callers: a caller blocked in Lock or RLock gets the
\* mutex when it is free again and again (SF), and a caller that holds it
\* runs on (WF)
CallerFairness ==
    /\ SF_vars(SweeperLock)
    /\ WF_vars(SweeperUnlock)
    /\ \A t \in Threads :
          /\ SF_vars(Acquire(t))
          /\ WF_vars(ExportCopy(t))
          /\ WF_vars(Return(t))

\* Callers of every operation of the table, ImportData(nil) among them,
\* beside the sweep
LiveNext ==
    \/ Callers(Mutating \cup Reading, OneKey, OneValue, 1..MaxTTL)
    \/ \E t \in Threads : Call(t, NilImport)
    \/ \E t \in Threads : ExportCopy(t)

LiveSpec == Init /\ [][LiveNext]_vars /\ CallerFairness

----------------------------------------------------------------------------
(* Persistence: the log file, the snapshot file and the loads.  A load runs  *)
(* record by record, and the clock can move between two records.             *)

\* LogEntry.  Operation "BAD" stands for bytes that json cannot decode into a
\* LogEntry, "NOP" for an operation that is none of SET, DEL and EXPIRE.
LogEntry(operation, key, value, expiresAt, timestamp) ==
    [Operation |-> operation, Key |-> key, Value |-> value, ExpiresAt |-> expiresAt,
     Timestamp |-> timestamp]

Undecodable == LogEntry("BAD", "", NilValue, 0, 0)
UnknownOperation == LogEntry("NOP", "a", NilValue, 0, 0)

\* A value that is a Go int, and what encoding/json makes of a number it
\* decodes into an interface{}
IntValue == "int(7)"
FloatValue == "float64(7)"

\* json decoding of a value into an interface{}: a string stays the string, a
\* number comes back as a float64
JSONDecoded(v) == IF v = IntValue THEN FloatValue ELSE v

\* decoder.Decode(&logEntry), for bytes that decode
Decode(r) == [r EXCEPT !.Value = JSONDecoded(@)]

\* An expiration written in a log: a time in seconds after every load
LogExpiry == StartSec + 2

\* The timestamps written in a log: a time in seconds (what a writer that
\* stamps with time.Now().Unix() leaves), and a time in nanoseconds (the
\* LastAccess that SaveToLog writes)
LogStamps == {StartSec + 1, StartNanos}

\* The records a log can hold, over the keys KS and the values VS
Records(KS, VS) ==
    {LogEntry("SET", k, v, e, ts) : k \in KS, v \in VS, e \in {0, LogExpiry}, ts \in LogStamps}
    \cup {LogEntry("DEL", k, NilValue, 0, StartNanos) : k \in KS}
    \cup {LogEntry("EXPIRE", k, NilValue, LogExpiry, ts) : k \in KS, ts \in LogStamps}
    \cup {Undecodable, UnknownOperation}

\* The log files of at most n records from RS
Logs(RS, n) == UNION {[1..m -> RS] : m \in 0..n}

\* LoadFromLog, LoadSnapshot: seconds := int(ExpiresAt - Timestamp)
RecordSeconds(r) == r.ExpiresAt - r.Timestamp

\* LoadFromLog: the switch on logEntry.Operation, the tables it can leave
ApplyRecord(d, r, cap, nowSec, now) ==
    CASE r.Operation = "SET" ->
           {IF r.ExpiresAt > 0 /\ RecordSeconds(r) > 0
            THEN ExpireResult(e, r.Key, RecordSeconds(r), nowSec)
            ELSE e : e \in SetResult(d, r.Key, r.Value, cap, now)}
      [] r.Operation = "DEL" -> {DeleteResult(d, r.Key)}
      [] r.Operation = "EXPIRE" ->
           {IF RecordSeconds(r) > 0
            THEN ExpireResult(d, r.Key, RecordSeconds(r), nowSec)
            ELSE d}
      [] OTHER -> {d}

\* What a load leaves alone
LoadFrame ==
    UNCHANGED <<maxEntries, clock, tickerNext, tickPending, closed, sweeper, panicked,
                mu, thr, nilData, cli, file, snap>>

\* No load is running and another may be called
CanLoad ==
    \/ loader.result = "none"
    \/ loader.result = "ok" /\ loader.runs < MaxLoads

\* LoadFromLog: os.Stat and os.Open.  A file that does not exist is an error.
LoadFromLogOpen ==
    /\ Running
    /\ CanLoad
    /\ loader' = [loader EXCEPT !.fn = "LoadFromLog", !.pos = 0,
                                !.result = IF file.exists THEN "running" ELSE "error"]
    /\ UNCHANGED <<data, last, held, shared>>
    /\ LoadFrame

\* LoadFromLog with a loop that goes on to the next record when Decode fails
LoadFromLogRecordSkips ==
    /\ Running
    /\ loader.fn = "LoadFromLog" /\ loader.result = "running"
    /\ loader.pos < Len(file.recs)
    /\ LET r == file.recs[loader.pos + 1]
       IN  IF r.Operation = "BAD"
           THEN /\ loader' = [loader EXCEPT !.pos = @ + 1]
                /\ UNCHANGED <<data, last>>
           ELSE /\ data' \in ApplyRecord(data, Decode(r), maxEntries, Unix, UnixNano)
                /\ loader' = [loader EXCEPT !.pos = @ + 1]
                /\ last' = Done("LoadFromLog", r.Key, TRUE, NilValue, loader.pos + 1)
    /\ Follows
    /\ LoadFrame

\* LoadFromLog: one turn of the loop on a record of the file.  Decode fails on
\* bytes it cannot decode and the load returns the error; a record that
\* decodes is applied.
LoadFromLogRecord ==
    /\ Running
    /\ loader.fn = "LoadFromLog" /\ loader.result = "running"
    /\ loader.pos < Len(file.recs)
    /\ LET r == file.recs[loader.pos + 1]
       IN  IF r.Operation = "BAD"
           THEN /\ loader' = [loader EXCEPT !.result = "error"]
                /\ UNCHANGED <<data, last>>
           ELSE /\ data' \in ApplyRecord(data, Decode(r), maxEntries, Unix, UnixNano)
                /\ loader' = [loader EXCEPT !.pos = @ + 1]
                /\ last' = Done("LoadFromLog", r.Key, TRUE, NilValue, loader.pos + 1)
    /\ Follows
    /\ LoadFrame

\* LoadFromLog: Decode at the end of the file.  After the last record it
\* returns io.EOF, whose text is "EOF", and the load returns nil; inside a
\* record that was cut short it returns io.ErrUnexpectedEOF, whose text is
\* not "EOF", and the load returns the error.
LoadFromLogEnd ==
    /\ Running
    /\ loader.fn = "LoadFromLog" /\ loader.result = "running"
    /\ loader.pos = Len(file.recs)
    /\ loader' = IF file.torn
                 THEN [loader EXCEPT !.result = "error"]
                 ELSE [loader EXCEPT !.result = "ok", !.runs = @ + 1,
                                     !.first = IF loader.runs = 0 THEN data ELSE @]
    /\ UNCHANGED <<data, last, held, shared>>
    /\ LoadFrame

\* LoadSnapshot that empties the table before it reads the file
LoadSnapshotOpenClears ==
    /\ Running
    /\ loader.result = "none"
    /\ loader' = [loader EXCEPT !.fn = "LoadSnapshot",
                                !.todo = IF snap.state = "ok" THEN DOMAIN snap.map ELSE {},
                                !.result = IF snap.state = "ok" THEN "running" ELSE "error"]
    /\ data' = EmptyMap
    /\ UNCHANGED last
    /\ Follows
    /\ LoadFrame

\* LoadSnapshot: os.ReadFile and json.Unmarshal.  A file that is missing or
\* does not decode is an error.
LoadSnapshotOpen ==
    /\ Running
    /\ loader.result = "none"
    /\ loader' = [loader EXCEPT !.fn = "LoadSnapshot",
                                !.todo = IF snap.state = "ok" THEN DOMAIN snap.map ELSE {},
                                !.result = IF snap.state = "ok" THEN "running" ELSE "error"]
    /\ UNCHANGED <<data, last, held, shared>>
    /\ LoadFrame

\* LoadSnapshot: one turn of the range loop: Set, and Expire when the entry
\* has an expiration and ExpiresAt - LastAccess is positive
LoadSnapshotEntry ==
    /\ Running
    /\ loader.fn = "LoadSnapshot" /\ loader.result = "running"
    /\ \E k \in loader.todo :
          LET e == snap.map[k]
              r == Decode(LogEntry("SET", k, e.Value, e.ExpiresAt, e.LastAccess))
          IN  /\ data' \in ApplyRecord(data, r, maxEntries, Unix, UnixNano)
              /\ loader' = [loader EXCEPT !.todo = @ \ {k}, !.pos = @ + 1]
              /\ last' = Done("LoadSnapshot", k, TRUE, NilValue, loader.pos + 1)
    /\ Follows
    /\ LoadFrame

\* LoadSnapshot: the range loop is over
LoadSnapshotEnd ==
    /\ Running
    /\ loader.fn = "LoadSnapshot" /\ loader.result = "running"
    /\ loader.todo = {}
    /\ loader' = [loader EXCEPT !.result = "ok"]
    /\ UNCHANGED <<data, last, held, shared>>
    /\ LoadFrame

\* What a save leaves alone
SaveFrame ==
    /\ UNCHANGED <<data, maxEntries, clock, tickerNext, tickPending, closed, sweeper,
                   panicked, mu, thr, last, nilData, cli, loader>>
    /\ Follows

\* SaveToLog: the records written for the table d, one SET record an entry,
\* with the entry's LastAccess as the timestamp
SavedRecords(d) ==
    {LogEntry("SET", k, d[k].Value, d[k].ExpiresAt, d[k].LastAccess) : k \in DOMAIN d}

\* The orders in which a range over a map can visit the set S
Orders(S) ==
    {s \in [1..Cardinality(S) -> S] : \A i, j \in 1..Cardinality(S) : i # j => s[i] # s[j]}

\* SaveToLog: the file is opened for append, created when it is missing, and
\* the exported table is written to it in the order of the range over the map
SaveToLog ==
    /\ Running
    /\ \E recs \in Orders(SavedRecords(data)) :
          file' = [exists |-> TRUE, recs |-> file.recs \o recs, torn |-> file.torn,
                   mtime |-> UnixNano]
    /\ UNCHANGED snap
    /\ SaveFrame

\* Snapshot: the exported table is marshalled and written over the file
Snapshot ==
    /\ Running
    /\ snap' = [state |-> "ok", map |-> data, mtime |-> UnixNano]
    /\ UNCHANGED file
    /\ SaveFrame

\* The process ends and another starts: cache.NewCacheEngine with the same
\* capacity, and the files as they were left
Restart ==
    /\ Running
    /\ loader.fn = "none"
    /\ file.exists \/ snap.state = "ok"
    /\ data' = EmptyMap
    /\ last' = Done("New", "", TRUE, NilValue, 0)
    /\ loader' = [NotLoading EXCEPT !.fn = "new"]
    /\ UNCHANGED <<maxEntries, clock, tickerNext, tickPending, closed, sweeper, panicked,
                   mu, thr, nilData, cli, file, snap>>
    /\ Follows

\* The values of the engine that is saved: a string and a number
SaveValues == {"v1", IntValue}

\* An engine that is given Sets and Expires, saved once to an empty log or to
\* a snapshot, and loaded by a new engine of the same capacity
SaveNext ==
    \/ loader.fn = "none" /\ ~file.exists /\ snap.state = "missing"
         /\ \/ \E k \in TwoKeys, v \in SaveValues : Set(k, v)
            \/ \E k \in TwoKeys : Expire(k, MaxTTL)
    \/ Tick
    \/ loader.fn = "none" /\ ~file.exists /\ SaveToLog
    \/ loader.fn = "none" /\ snap.state = "missing" /\ Snapshot
    \/ Restart
    \/ loader.fn = "new" /\ file.exists /\ LoadFromLogOpen
    \/ LoadFromLogRecord
    \/ LoadFromLogEnd
    \/ loader.fn = "new" /\ snap.state = "ok" /\ LoadSnapshotOpen
    \/ LoadSnapshotEntry
    \/ LoadSnapshotEnd

SaveSpec == Init /\ [][SaveNext]_vars

\* The files a load is given: no log, or a log of at most MaxLog records that
\* ends clean or torn; no snapshot, an undecodable one, or one of one entry
ReplayRecords == Records(TwoKeys, OneValue)

ReplayLogs ==
    {NoLog} \cup {[exists |-> TRUE, recs |-> l, torn |-> t, mtime |-> 0] :
                    l \in Logs(ReplayRecords, MaxLog), t \in BOOLEAN}

ReplaySnapshots ==
    {NoSnapshot, [state |-> "garbage", map |-> EmptyMap, mtime |-> 0],
     [state |-> "ok", map |-> [k \in OneKey |-> Entry("v1", LogExpiry, StartNanos)],
      mtime |-> 0]}

ReplayInit ==
    /\ InitEngine
    /\ cli = NoCli
    /\ file \in ReplayLogs
    /\ snap \in ReplaySnapshots
    /\ loader = NotLoading

\* An engine that is given Sets and then loads a log, once or again, or a
\* snapshot
ReplayNext ==
    \/ loader.result = "none" /\ \E k \in TwoKeys, v \in OneValue : Set(k, v)
    \/ Tick
    \/ LoadFromLogOpen
    \/ LoadFromLogRecord
    \/ LoadFromLogEnd
    \/ LoadSnapshotOpen
    \/ LoadSnapshotEntry
    \/ LoadSnapshotEnd

ReplaySpec == ReplayInit /\ [][ReplayNext]_vars

\* The SET and DEL records of a log that is replayed twice
TwiceRecords ==
    {r \in Records(Keys, Values) :
        \/ r.Operation = "SET" /\ r.ExpiresAt = 0 /\ r.Timestamp = StartNanos
        \/ r.Operation = "DEL"}

TwiceInit ==
    /\ InitEngine
    /\ cli = NoCli
    /\ file \in {[exists |-> TRUE, recs |-> l, torn |-> FALSE, mtime |-> 0] :
                   l \in Logs(TwiceRecords, MaxReplayed)}
    /\ snap = NoSnapshot
    /\ loader = NotLoading

\* An empty engine that replays a log of SET and DEL records, and replays it
\* again
TwiceNext ==
    \/ Tick
    \/ LoadFromLogOpen
    \/ LoadFromLogRecord
    \/ LoadFromLogEnd

TwiceSpec == TwiceInit /\ [][TwiceNext]_vars

----------------------------------------------------------------------------
(* The command loop cli.Run.  A line is the sequence of its fields            *)
(* (strings.Fields of the trimmed line); the lines name no file, so SAVE and  *)
(* LOAD use the default log and SNAPSHOT and LOADSNAPSHOT the default         *)
(* snapshot.  A command runs whole, at one time of the clock.                 *)

\* The lines of the standard input: the empty one, the commands with and
\* without their arguments, a command in lower case and an unknown one
CliLines ==
    {<<>>, <<"SET", "a", "v1">>, <<"SET", "a">>, <<"GET", "a">>, <<"GET">>,
     <<"DEL", "a">>, <<"DEL">>, <<"EXPIRE", "a", "1">>, <<"EXPIRE", "a", "x">>,
     <<"EXPIRE", "a">>, <<"SAVE">>, <<"LOAD">>, <<"SNAPSHOT">>, <<"LOADSNAPSHOT">>,
     <<"STATS">>, <<"EXIT">>, <<"exit">>, <<"FOO">>}

\* strings.ToUpper on the first field of a line
ToUpper(w) == IF w = "exit" THEN "EXIT" ELSE w

\* strconv.Atoi: whether the field is a number, and the number
AtoiOk(w) == w \in {"0", "1"}

Atoi(w) == IF w = "1" THEN 1 ELSE 0

\* LoadFromLog run whole: the tables it can leave from record i on.  It stops
\* at a record that does not decode.
RECURSIVE Replayed(_, _, _, _, _, _)
Replayed(d, recs, i, cap, nowSec, now) ==
    IF i > Len(recs) \/ recs[i].Operation = "BAD"
    THEN {d}
    ELSE UNION {Replayed(e, recs, i + 1, cap, nowSec, now) :
                  e \in ApplyRecord(d, Decode(recs[i]), cap, nowSec, now)}

\* LoadFromLog returns an error
LoadFromLogFails(f) ==
    \/ ~f.exists
    \/ f.torn
    \/ \E i \in 1..Len(f.recs) : f.recs[i].Operation = "BAD"

\* LoadSnapshot run whole: the tables it can leave with the keys todo of the
\* snapshot m still to apply, in the order of the range over the map
RECURSIVE Restored(_, _, _, _, _, _)
Restored(d, m, todo, cap, nowSec, now) ==
    IF todo = {}
    THEN {d}
    ELSE UNION {UNION {Restored(e, m, todo \ {k}, cap, nowSec, now) :
                         e \in ApplyRecord(d, Decode(LogEntry("SET", k, m[k].Value,
                                                              m[k].ExpiresAt, m[k].LastAccess)),
                                           cap, nowSec, now)} :
                  k \in todo}

\* What a command does: the table, the files and the closed channel it
\* leaves, whether close panicked, what it prints, and whether Run returns
Outcome(d, f, s, c, p, o, to) ==
    [data |-> d, file |-> f, snap |-> s, closed |-> c, panicked |-> p, out |-> o, pc |-> to]

\* A command that prints out and changes nothing
Says(out) == {Outcome(data, file, snap, closed, FALSE, out, "prompt")}

\* A command that leaves one of the tables ds and prints out
Leaves(ds, out) == {Outcome(d, file, snap, closed, FALSE, out, "prompt") : d \in ds}

\* The switch on the command of the line parts
Command(parts) ==
    LET command == ToUpper(parts[1])
        n == Len(parts)
    IN  CASE command = "SET" ->
               IF n < 3 THEN Says("usage")
               ELSE Leaves(SetResult(data, parts[2], parts[3], maxEntries, UnixNano), "OK")
          [] command = "GET" ->
               IF n < 2 THEN Says("usage")
               ELSE Leaves({GetResult(data, parts[2], Unix, UnixNano)},
                           IF GetFound(data, parts[2], Unix)
                           THEN GetValue(data, parts[2], Unix) ELSE "(nil)")
          [] command = "DEL" ->
               IF n < 2 THEN Says("usage")
               ELSE Leaves({DeleteResult(data, parts[2])},
                           IF parts[2] \in DOMAIN data THEN "OK" ELSE "not found")
          [] command = "EXPIRE" ->
               IF n < 3 THEN Says("usage")
               ELSE IF ~AtoiOk(parts[3]) THEN Says("not a number")
               ELSE Leaves({ExpireResult(data, parts[2], Atoi(parts[3]), Unix)},
                           IF parts[2] \in DOMAIN data THEN "OK" ELSE "not found")
          [] command = "SAVE" ->
               {Outcome(data, [exists |-> TRUE, recs |-> file.recs \o recs,
                               torn |-> file.torn, mtime |-> UnixNano],
                        snap, closed, FALSE, "saved", "prompt") :
                  recs \in Orders(SavedRecords(data))}
          [] command = "LOAD" ->
               IF ~file.exists THEN Says("error")
               ELSE Leaves(Replayed(data, file.recs, 1, maxEntries, Unix, UnixNano),
                           IF LoadFromLogFails(file) THEN "error" ELSE "loaded")
          [] command = "SNAPSHOT" ->
               {Outcome(data, file, [state |-> "ok", map |-> data, mtime |-> UnixNano],
                        closed, FALSE, "saved", "prompt")}
          [] command = "LOADSNAPSHOT" ->
               IF snap.state # "ok" THEN Says("error")
               ELSE Leaves(Restored(data, snap.map, DOMAIN snap.map, maxEntries, Unix,
                                    UnixNano), "loaded")
          [] command = "STATS" -> Says("stats")
          [] command = "EXIT" ->
               {Outcome(data, file, snap, TRUE, closed, "closing", "exited")}
          [] OTHER -> Says("unknown")

\* What the command loop leaves alone
CliFrame ==
    UNCHANGED <<maxEntries, clock, tickerNext, tickPending, sweeper, mu, thr, last, nilData,
                loader>>

\* fmt.Print("cache> ")
CliPrompt ==
    /\ Running
    /\ cli.pc = "prompt"
    /\ cli' = [cli EXCEPT !.pc = "read", !.out = "cache> "]
    /\ UNCHANGED <<data, file, snap, closed, panicked, held, shared>>
    /\ CliFrame

\* reader.ReadString: a line is read, trimmed and split, and an empty line
\* goes round the loop; at the end of the input ReadString returns io.EOF, the
\* loop prints the error and goes round (continue)
CliRead ==
    /\ Running
    /\ cli.pc = "read"
    /\ cli' = IF cli.stdin = <<>>
              THEN [cli EXCEPT !.pc = "prompt", !.out = "read error"]
              ELSE [cli EXCEPT !.stdin = Tail(@), !.line = Head(cli.stdin),
                               !.pc = IF Head(cli.stdin) = <<>> THEN "prompt" ELSE "dispatch"]
    /\ UNCHANGED <<data, file, snap, closed, panicked, held, shared>>
    /\ CliFrame

\* The switch runs the command of the line
CliDispatch ==
    /\ Running
    /\ cli.pc = "dispatch"
    /\ \E o \in Command(cli.line) :
          /\ data' = o.data
          /\ file' = o.file
          /\ snap' = o.snap
          /\ closed' = o.closed
          /\ panicked' = o.panicked
          /\ cli' = [cli EXCEPT !.pc = o.pc, !.out = o.out]
    /\ Follows
    /\ CliFrame

\* The inputs of at most n lines
Inputs(n) == UNION {[1..m -> CliLines] : m \in 0..n}

CliInit ==
    /\ InitEngine
    /\ file = NoLog
    /\ snap = NoSnapshot
    /\ loader = NotLoading
    /\ cli \in {[pc |-> "prompt", stdin |-> i, line |-> <<>>, out |-> ""] : i \in Inputs(MaxInput)}

CliNext ==
    \/ CliPrompt
    \/ CliRead
    \/ CliDispatch
    \/ Tick

\* Run is a goroutine that can run, so it does run
CliSpec == CliInit /\ [][CliNext]_vars /\ WF_vars(CliPrompt) /\ WF_vars(CliRead) /\ WF_vars(CliDispatch)

----------------------------------------------------------------------------
(* Properties *)

\* The step is the completion of the operation op of the table
OpStep(op) == last'.op = op /\ sweeper' = sweeper /\ (last' # last \/ data' # data)

\* The expiration of the entry is set (0 means none) and has passed
Passed(e, nowSec) == e.ExpiresAt # 0 /\ e.ExpiresAt <= nowSec

\* No caller is inside an operation and the sweep goroutine is between passes
Quiescent ==
    /\ \A t \in Threads : thr[t].pc = "idle"
    /\ sweeper \in {"select", "exit"}

\* C1: between operations the table never holds more entries than the
\* capacity: Size() <= Capacity().
C1_CapacityInvariant == Size(data) <= maxEntries

\* C2: a Set on a key that is already in the table, at exactly full capacity,
\* removes no key and leaves the size unchanged, and a Set while the table is
\* below capacity removes no entry.
C2_OverwriteDoesNotEvict ==
    [][OpStep("Set") =>
          /\ (last'.key \in DOMAIN data /\ Size(data) = maxEntries)
                => DOMAIN data' = DOMAIN data
          /\ Size(data) < maxEntries => DOMAIN data \subseteq DOMAIN data']_vars

\* C3: when a Set of a new key evicts, what it removes has the least
\* LastAccess of the table and every other entry stays as it was; and when the
\* table is exactly full and one key was touched strictly before all the
\* others, the Set of a new key removes exactly that key.
C3_LRUVictim ==
    [][(OpStep("Set") /\ last'.key \notin DOMAIN data) =>
          LET removed == DOMAIN data \ DOMAIN data'
              oldest == {u \in DOMAIN data : \A j \in DOMAIN data \ {u} :
                            data[u].LastAccess < data[j].LastAccess}
          IN  /\ \A r \in removed : \A j \in DOMAIN data :
                    data[r].LastAccess <= data[j].LastAccess
              /\ \A j \in DOMAIN data \ removed : data'[j] = data[j]
              /\ (Size(data) = maxEntries /\ oldest # {}) => removed = oldest]_vars

\* C4: a Get never returns found for an entry whose expiration is set and is
\* at or before the clock reading of that Get.
C4_NoStaleRead ==
    [][(OpStep("Get") /\ last'.ok) => ~Passed(data[last'.key], Unix)]_vars

\* C5: after Expire(k, ttl) with ttl >= 1 has succeeded, a Get(k) that comes
\* next and before ttl seconds have passed returns the value with found, and
\* one that comes after more than ttl seconds returns absent.
C5_TTLCorrectness ==
    [][(/\ last.op = "Expire" /\ last.ok /\ last.num >= 1
        /\ OpStep("Get") /\ last'.key = last.key) =>
          /\ (clock - last.at < last.num * NanosPerSec) =>
                (last'.ok /\ last'.val = data[last.key].Value)
          /\ (clock - last.at > last.num * NanosPerSec) => ~last'.ok]_vars

\* C6: with writers and readers issuing Set, Get and Delete beside the sweep,
\* the table is never over capacity, nothing panics, and at quiescence every
\* entry of the table is one a Set wrote.
C6_ConcurrentSafety ==
    /\ Size(data) <= maxEntries
    /\ ~panicked
    /\ Quiescent => \A k \in DOMAIN data :
          /\ data[k].Value \in Values
          /\ data[k].LastAccess \in StartNanos..clock

\* The callers and the sweep goroutine that are inside a critical section
InCS == {t \in Threads : thr[t].pc = "cs"} \cup (IF sweeper = "cs" THEN {Sweeper} ELSE {})

\* The critical section writes the table
Writes(t) == t = Sweeper \/ thr[t].op \in Mutating

\* C7: no two critical sections that write the table are active at once, and
\* no Size or ExportData read overlaps one that writes; the holders of c.mu are
\* exactly the callers inside their critical sections.
C7_Exclusion ==
    /\ \A t1, t2 \in InCS : t1 # t2 => (~Writes(t1) /\ ~Writes(t2))
    /\ InCS = mu.r \cup (IF mu.w = NoOne THEN {} ELSE {mu.w})

\* C7's case: a caller writes the table in its critical section while another
\* caller waits for c.mu
C7_Contention ==
    \E t1, t2 \in Threads :
        /\ thr[t1].pc = "cs" /\ thr[t1].op \in Mutating
        /\ thr[t2].pc = "lock"

\* C8: while the engine is not shut down, an entry whose expiration passed a
\* sweep interval ago or more, and that no operation has touched for a sweep
\* interval, is no longer in the table.
C8_ActiveSweep ==
    (~closed /\ SweeperIdle) =>
        \A k \in DOMAIN data :
            ~(/\ Passed(data[k], Unix)
              /\ data[k].ExpiresAt * NanosPerSec + SweepInterval <= clock
              /\ last.at + SweepInterval <= clock)

\* C9: once Close has returned the sweep goroutine takes no tick: no sweep
\* pass starts.
C9_NoSweepAfterClose ==
    [][~(closed /\ sweeper = "select" /\ sweeper' = "clean")]_vars

\* C10: after Close the sweep goroutine exits (or the process has ended in a
\* panic), wherever the goroutine was when Close was called; and Close never
\* waits.
C10_SweeperExits ==
    /\ closed ~> (sweeper = "exit" \/ panicked)
    /\ [](Running => ENABLED Close)

\* C10's case: Close has been called while the sweep goroutine waits for c.mu,
\* which a caller holds
C10_ClosedWhileWaiting ==
    closed /\ ~panicked /\ sweeper = "clean" /\ mu.w \in Threads

\* C11: a second Close does not fail: no step taken after the shutdown ends
\* in a panic.
C11_CloseIdempotent ==
    [][(closed /\ ~panicked) => ~panicked']_vars

\* C12: a Set leaves its key with the value and no expiration, whatever
\* expiration the key had, and a Get of that key that comes next, however
\* late, returns the value with found.
C12_SetClearsExpiration ==
    [][/\ OpStep("Set") =>
            /\ last'.key \in DOMAIN data'
            /\ data'[last'.key].ExpiresAt = 0
            /\ data'[last'.key].Value = last'.val
       /\ (last.op = "Set" /\ OpStep("Get") /\ last'.key = last.key) =>
            (last'.ok /\ last'.val = last.val)]_vars

\* C12's case: a Set has written over an entry that had an expiration, that
\* expiration has since passed, and the entry is in the table without one
C12_ClearedAndOutlived ==
    /\ last.op = "Set"
    /\ last.num > 0 /\ last.num <= Unix
    /\ clock > last.at
    /\ last.key \in DOMAIN data /\ data[last.key].ExpiresAt = 0

\* C13: a Get of a key that is in the table and whose expiration has not
\* passed returns found with the entry's value; the value of an entry is the
\* one the last Set of its key wrote, and only a Set of the key puts the key
\* in the table; a Get of a key that is not in the table returns not found
\* and changes nothing.
C13_ReadYourWrite ==
    [][/\ (OpStep("Get") /\ last'.key \in DOMAIN data
              /\ ~Passed(data[last'.key], Unix)) =>
            (last'.ok /\ last'.val = data[last'.key].Value)
       /\ (OpStep("Get") /\ last'.key \notin DOMAIN data) =>
            (~last'.ok /\ last'.val = NilValue /\ data' = data)
       /\ \A k \in DOMAIN data' :
            (k \notin DOMAIN data \/ data'[k].Value # data[k].Value) =>
                (OpStep("Set") /\ last'.key = k /\ last'.val = data'[k].Value)]_vars

\* C13's case: a Get has returned the value of the second Set of its key
\* while another key is in the table
C13_ReadSecondWrite ==
    /\ last.op = "Get" /\ last.ok /\ last.val = "v2"
    /\ Size(data) = 2

\* C14: Delete returns true exactly when its key was in the table; afterwards
\* the key is absent and every other entry is as it was.
C14_DeleteFrame ==
    [][OpStep("Delete") =>
          /\ last'.ok = (last'.key \in DOMAIN data)
          /\ DOMAIN data' = DOMAIN data \ {last'.key}
          /\ \A k \in DOMAIN data' : data'[k] = data[k]]_vars

\* C14's case: a Delete has removed its key and left another entry
C14_DeletedOne ==
    last.op = "Delete" /\ last.ok /\ Size(data) = 1

\* C15: Expire on a key that is not in the table returns false and leaves the
\* table as it was; on a key of the table it returns true and changes only
\* that entry's ExpiresAt, to the clock's seconds plus the seconds given.
C15_ExpireFrame ==
    [][OpStep("Expire") =>
          /\ last'.ok = (last'.key \in DOMAIN data)
          /\ DOMAIN data' = DOMAIN data
          /\ \A k \in DOMAIN data \ {last'.key} : data'[k] = data[k]
          /\ last'.key \in DOMAIN data =>
                /\ data'[last'.key].ExpiresAt = Unix + last'.num
                /\ data'[last'.key].Value = data[last'.key].Value
                /\ data'[last'.key].LastAccess = data[last'.key].LastAccess]_vars

\* C15's case: an Expire has given one of two entries an expiration, after
\* the clock moved on from the entry's last access
C15_ExpiredOneOfTwo ==
    /\ last.op = "Expire" /\ last.ok /\ last.num = 1
    /\ Size(data) = 2
    /\ data[last.key].LastAccess < last.at

\* C16: after an Expire with zero or negative seconds has succeeded, the Get
\* of that key that comes next reports the key absent.
C16_NonPositiveTTL ==
    [][(/\ last.op = "Expire" /\ last.ok /\ last.num <= 0
        /\ OpStep("Get") /\ last'.key = last.key) => ~last'.ok]_vars

\* The step is a pass of cleanExpired
SweepStep == sweeper \in {"clean", "cs"} /\ sweeper' = "select"

\* C17: a sweep pass removes every entry whose expiration is set and has
\* passed and no other; and neither the sweep nor the check of Get removes or
\* changes an entry whose expiration is unset or still to come.
C17_ExactlyExpired ==
    [][/\ SweepStep =>
            data' = [k \in {j \in DOMAIN data : ~Passed(data[j], Unix)} |-> data[k]]
       /\ (SweepStep \/ OpStep("Get")) =>
            \A k \in DOMAIN data :
                (~Passed(data[k], Unix) /\ ~(OpStep("Get") /\ last'.key = k)) =>
                    (k \in DOMAIN data' /\ data'[k] = data[k])
       /\ (OpStep("Get") /\ last'.key \in DOMAIN data
              /\ ~Passed(data[last'.key], Unix)) =>
            /\ last'.key \in DOMAIN data'
            /\ data'[last'.key].Value = data[last'.key].Value
            /\ data'[last'.key].ExpiresAt = data[last'.key].ExpiresAt]_vars

\* C18: Size returns the number of entries and changes nothing, and so does
\* MaxEntries with the capacity; the count is 0 for a new engine, a Set of a
\* new key below capacity raises it by one and a Delete of a key of the table
\* lowers it by one.
C18_SizeCounts ==
    [][/\ OpStep("Size") => (last'.num = Cardinality(DOMAIN data) /\ data' = data)
       /\ OpStep("MaxEntries") => (last'.num = maxEntries /\ data' = data)
       /\ (last.op = "New" /\ OpStep("Size")) => last'.num = 0
       /\ (OpStep("Set") /\ last'.key \notin DOMAIN data
              /\ Cardinality(DOMAIN data) < maxEntries) =>
            Cardinality(DOMAIN data') = Cardinality(DOMAIN data) + 1
       /\ (OpStep("Delete") /\ last'.key \in DOMAIN data) =>
            Cardinality(DOMAIN data') = Cardinality(DOMAIN data) - 1]_vars

\* C18's case: Size has counted two entries, one of them expired and not yet
\* removed
C18_CountedTwo ==
    /\ last.op = "Size" /\ last.num = 2
    /\ \E k \in DOMAIN data : IsExpired(data[k], Unix)

\* The step is the return of an operation op that a caller ran under c.mu
Returns(op) ==
    \E t \in Threads : thr[t].pc = "cs" /\ thr[t].op = op /\ thr'[t].pc = "idle"

\* The step is a write of the caller to the map it holds
CallerStep ==
    held' # held /\ last' = last /\ \A t \in Threads : thr'[t].pc = thr[t].pc

\* C19: what ExportData returns is, key for key and field for field, the table
\* as it was at one point between ExportData taking c.mu and its return;
\* ExportData leaves the table as it was; and what the caller then writes to
\* the returned map changes nothing in the table.
C19_ExportIsACopy ==
    [][/\ \A t \in Threads :
            (thr[t].pc = "cs" /\ thr[t].op = "ExportData" /\ thr'[t].pc = "idle") =>
                /\ thr[t].map \in thr[t].seen
                /\ last'.map = thr[t].map
                /\ data' = data
                /\ held' = thr[t].map /\ ~shared'
       /\ (CallerStep /\ ~shared) => data' = data]_vars

\* C19's case: ExportData has returned a table of two entries, the caller has
\* written to the map it got, and the table is still what was returned
C19_CopyWritten ==
    /\ last.op = "ExportData"
    /\ Cardinality(DOMAIN last.map) = 2
    /\ held # last.map
    /\ data = last.map

\* C20: when ImportData returns the table is the map it was given, with no key
\* of the old table that the map lacks; and while ImportData is in its
\* critical section no other operation and no sweep pass is in one.
C20_ImportReplaces ==
    /\ [][Returns("ImportData") => (data' = last'.map /\ last'.op = "ImportData")]_vars
    /\ [](\A t \in InCS \cap Threads : thr[t].op = "ImportData" => InCS = {t})

\* C20's case: ImportData has replaced a table of two entries by a map that
\* lacks one of their keys, while another caller waited for c.mu
C20_ReplacedTwo ==
    /\ last.op = "ImportData" /\ last.num = 2
    /\ data = last.map
    /\ Cardinality(DOMAIN data) = 1
    /\ \E t \in Threads : thr[t].pc = "lock"

\* C28: a Get of a key whose entry has an expiration that is set and has
\* passed deletes that entry and no other, returns not found, and leaves
\* every other entry as it was, LastAccess included.
C28_LazyExpiration ==
    [][(OpStep("Get") /\ last'.key \in DOMAIN data /\ Passed(data[last'.key], Unix)) =>
          /\ ~last'.ok
          /\ DOMAIN data' = DOMAIN data \ {last'.key}
          /\ Cardinality(DOMAIN data') = Cardinality(DOMAIN data) - 1
          /\ \A k \in DOMAIN data' : data'[k] = data[k]]_vars

\* C29: a Set that puts a new key into a full table removes exactly one of
\* the entries that were there, also when entries share the least LastAccess
\* and when a LastAccess equals the clock reading of the eviction.
C29_EvictsExactlyOne ==
    [][(OpStep("Set") /\ last'.key \notin DOMAIN data
           /\ Cardinality(DOMAIN data) >= maxEntries) =>
          Cardinality(DOMAIN data \ DOMAIN data') = 1]_vars

CallsOfRecord(d, r, cap, nowSec, now) ==
    CASE r.Operation = "SET" ->
           {IF r.ExpiresAt # 0
            THEN ExpireResult(e, r.Key, RecordSeconds(r), nowSec)
            ELSE e : e \in SetResult(d, r.Key, r.Value, cap, now)}
      [] r.Operation = "DEL" -> {DeleteResult(d, r.Key)}
      [] r.Operation = "EXPIRE" -> {ExpireResult(d, r.Key, RecordSeconds(r), nowSec)}
      [] OTHER -> {d}

\* A step of LoadFromLog that applies a record of the file
RecordStep == loader.fn = "LoadFromLog" /\ loader'.fn = "LoadFromLog" /\ loader'.pos = loader.pos + 1

\* C21: LoadFromLog does to the table, for each record in file order, what the
\* engine calls do: Set(key, value) and, when an expiration was recorded,
\* Expire(key, expires_at - timestamp) for a SET record; Delete(key) for a DEL
\* record; Expire(key, expires_at - timestamp) for an EXPIRE record.  Every SET
\* or EXPIRE record that carries an expiration results in an Expire call.
C21_ReplayIsCalls ==
    [][RecordStep =>
         data' \in CallsOfRecord(data, Decode(file.recs[loader'.pos]), maxEntries, Unix, UnixNano)]_vars

\* The second at which the log was written
SavedSec == file.mtime \div NanosPerSec

\* C22: after SaveToLog into an empty file and LoadFromLog of that file into
\* an empty engine of the same capacity, the engine has the keys of the saved
\* engine with the same values, and every entry whose expiration had not
\* passed when it was saved has an expiration again.
C22_LogRoundTrip ==
    (loader.fn = "LoadFromLog" /\ loader.result = "ok") =>
       /\ DOMAIN data = {file.recs[i].Key : i \in 1..Len(file.recs)}
       /\ \A i \in 1..Len(file.recs) :
             LET r == file.recs[i]
             IN  /\ data[r.Key].Value = r.Value
                 /\ (r.ExpiresAt > SavedSec) => data[r.Key].ExpiresAt # 0

\* The second at which the snapshot was written
SnapshotSec == snap.mtime \div NanosPerSec

\* C23: after Snapshot and LoadSnapshot of that file into an empty engine of
\* the same capacity, every key of the snapshot is in the engine with its
\* value, and every entry whose expiration had not passed when the snapshot
\* was written has an expiration.
C23_SnapshotRoundTrip ==
    (loader.fn = "LoadSnapshot" /\ loader.result = "ok") =>
       \A k \in DOMAIN snap.map :
          /\ k \in DOMAIN data
          /\ data[k].Value = snap.map[k].Value
          /\ (snap.map[k].ExpiresAt > SnapshotSec) => data[k].ExpiresAt # 0

\* LoadFromLog is at a record that does not decode
AtMalformed ==
    /\ loader.fn = "LoadFromLog" /\ loader.result = "running"
    /\ loader.pos < Len(file.recs)
    /\ file.recs[loader.pos + 1].Operation = "BAD"

\* LoadFromLog returned an error before the end of the file
FailedInside ==
    /\ loader.fn = "LoadFromLog" /\ loader.result = "error"
    /\ loader.pos < Len(file.recs)

\* C24: LoadFromLog returns an error at the first record it cannot decode: the
\* step at that record returns the error and leaves the table with the
\* records before it applied, a load that failed inside the file stopped at
\* its first undecodable record having applied each record before it, and
\* once it has failed no record is applied.
C24_MalformedAborts ==
    /\ [][(AtMalformed /\ loader' # loader) =>
            (loader'.result = "error" /\ loader'.pos = loader.pos /\ data' = data)]_vars
    /\ [](FailedInside =>
            /\ file.recs[loader.pos + 1].Operation = "BAD"
            /\ \A i \in 1..loader.pos : file.recs[i].Operation # "BAD")
    /\ [][FailedInside => (loader' = loader /\ data' = data)]_vars

\* A load applied a SET record and failed at the undecodable record after it
C24_AbortedAfterOne ==
    /\ FailedInside
    /\ loader.pos = 1
    /\ file.recs[1].Operation = "SET"
    /\ file.recs[1].Key \in DOMAIN data

\* LoadFromLog has applied every complete record of the file
AtEndOfLog ==
    /\ loader.fn = "LoadFromLog" /\ loader.result = "running"
    /\ loader.pos = Len(file.recs)

\* C25: a log whose last record is cut short, or that lacks a trailing
\* newline, is tolerated: when LoadFromLog has applied the complete records it
\* stops reading and returns success, with the table as those records left it.
C25_PartialTailTolerated ==
    [][(AtEndOfLog /\ loader' # loader) => (loader'.result = "ok" /\ data' = data)]_vars

\* The step in which the load fn is called
LoadCalled(fn) == loader.result # "running" /\ loader' # loader /\ loader'.fn = fn

\* C26: LoadFromLog on a file that does not exist, and LoadSnapshot on a file
\* that is missing or is not a decodable snapshot, return an error and leave
\* the table exactly as it was before the call.
C26_FailedLoadTouchesNothing ==
    [][(\/ LoadCalled("LoadFromLog") /\ ~file.exists
        \/ LoadCalled("LoadSnapshot") /\ snap.state # "ok")
       => (loader'.result = "error" /\ data' = data)]_vars

\* LoadSnapshot failed on an undecodable file in an engine that holds an entry
C26_GarbageSnapshotOverEntries ==
    /\ loader.fn = "LoadSnapshot" /\ loader.result = "error"
    /\ snap.state = "garbage"
    /\ data # EmptyMap

\* The key-to-value mapping of the table d
Mapping(d) == [k \in DOMAIN d |-> d[k].Value]

\* C27: starting from an empty engine of any capacity, replaying the same log
\* of SET and DEL records twice in succession yields the same key set and the
\* same key-to-value mapping as replaying it once.
C27_ReplayIdempotent ==
    (loader.fn = "LoadFromLog" /\ loader.result = "ok" /\ loader.runs = 2) =>
       Mapping(data) = Mapping(loader.first)

\* C31: no operation suspends indefinitely: under fair scheduling every Set,
\* Get, Delete, Expire, Size, ExportData and ImportData that was invoked
\* returns, and every sweep pass that began gives the table lock back.
C31_NoOperationSuspends ==
    /\ \A t \in Threads : (thr[t].pc # "idle") ~> (thr[t].pc = "idle")
    /\ (sweeper \in {"clean", "cs"}) ~> (sweeper = "select")

\* c.data is a map that ImportData was given: nothing else assigns c.data
Imported == shared \/ nilData

\* C32: after ImportData with a map of any size, and after any later Set,
\* Get, Delete and Expire, the table holds at most Capacity() entries in every
\* state between operations.
C32_CapacityAfterImport == Imported => Cardinality(DOMAIN data) <= maxEntries

\* C33: after ImportData(m) the table shares nothing with the caller: what the
\* caller later writes to m (adding, deleting or editing entries) leaves the
\* table as it is, so Get, Size and ExportData never see it and the table
\* never changes outside the table lock.
C33_EngineOwnsEntries == [][CallerStep => data' = data]_vars

\* LoadFromLog is at a record that decodes and whose operation is none of SET,
\* DEL and EXPIRE
AtUnknownOperation ==
    /\ loader.fn = "LoadFromLog" /\ loader.result = "running"
    /\ loader.pos < Len(file.recs)
    /\ file.recs[loader.pos + 1].Operation \notin {"SET", "DEL", "EXPIRE", "BAD"}

\* C34: replay never silently skips a record: at a record that decodes but
\* whose operation is none of SET, DEL and EXPIRE, LoadFromLog returns an
\* error instead of going on.
C34_UnknownOperationAborts ==
    [][(AtUnknownOperation /\ loader' # loader) => loader'.result = "error"]_vars

\* C35: expiration is final for a stored value: an entry whose expiration is
\* set and has passed stays so, step after step, until it is removed or a Set
\* of its key replaces it, so that no Get in between can find it; in
\* particular no Expire on the entry makes its old value readable again.
C35_ExpirationIsFinal ==
    [][\A k \in DOMAIN data :
          (Passed(data[k], Unix) /\ ~(OpStep("Set") /\ last'.key = k)) =>
             (k \notin DOMAIN data' \/ Passed(data'[k], clock' \div NanosPerSec))]_vars

\* The entry under the empty key is the least recently used one of a full
\* table
EmptyKeyIsLRU ==
    /\ "" \in DOMAIN data
    /\ Cardinality(DOMAIN data) = maxEntries
    /\ \A k \in DOMAIN data \ {""} : data[""].LastAccess < data[k].LastAccess

\* C36: the entry under the empty-string key is treated like any other: when
\* it is the least recently used entry of a full table, a Set of a new key
\* evicts it and the table stays within the capacity.
C36_EmptyKeyEvicted ==
    [][(OpStep("Set") /\ last'.key \notin DOMAIN data /\ EmptyKeyIsLRU) =>
          ("" \notin DOMAIN data' /\ Cardinality(DOMAIN data') <= maxEntries)]_vars

\* C37: the engine stays usable after any import: after ImportData with any
\* argument, a nil map and an empty map included, no Set, Get, Delete, Expire,
\* Size or ExportData panics.
C37_UsableAfterImport == Imported => ~panicked

\* The recorded expiration is set and is not later than the recorded time
ExpiredOnRecord(expiresAt, timestamp) == expiresAt # 0 /\ expiresAt <= timestamp

\* A step of LoadSnapshot that applies the entry of key k
EntryStep(k) ==
    loader.fn = "LoadSnapshot" /\ k \in loader.todo /\ loader'.todo = loader.todo \ {k}

\* C38: loading never turns an expired entry into a permanent one: a SET
\* record, or a snapshot entry, whose recorded expiration is set but not later
\* than its recorded timestamp or last access is not left in the table as an
\* entry without expiration, which Get would return for ever.
C38_NoPermanentFromExpired ==
    [][/\ (/\ RecordStep
           /\ file.recs[loader'.pos].Operation = "SET"
           /\ ExpiredOnRecord(file.recs[loader'.pos].ExpiresAt, file.recs[loader'.pos].Timestamp))
          => (file.recs[loader'.pos].Key \in DOMAIN data'
                => data'[file.recs[loader'.pos].Key].ExpiresAt # 0)
       /\ \A k \in DOMAIN snap.map :
             (EntryStep(k) /\ ExpiredOnRecord(snap.map[k].ExpiresAt, snap.map[k].LastAccess))
                => (k \in DOMAIN data' => data'[k].ExpiresAt # 0)]_vars

\* C39: the command loop terminates when its input ends: once a read of the
\* standard input has failed or met the end of the file, Run returns instead
\* of going round the loop for ever.
C39_LoopEndsWithInput ==
    (cli.pc = "read" /\ cli.stdin = <<>>) ~> (cli.pc = "exited")
====
